---------------------------- MODULE Spec2Model ----------------------------
(* Model of the gameplay core of rg3d-shooter: the fixed-timestep loop of   *)
(* main (src/main.rs), Game::update / Game::shoot_weapon (src/main.rs),     *)
(* Player (src/player.rs) and Weapon (src/weapon.rs).                       *)
(*                                                                          *)
(* Time is counted in integer units; one simulation step TIMESTEP = 1/60 s  *)
(* is Resolution units, so the reload interval 0.1 s is 6 * Resolution      *)
(* units.  Arithmetic is exact: f32 rounding is not modelled.               *)
EXTENDS Integers, Sequences, FiniteSets, TLC

(***************************************************************************)
(* Bounds of the model                                                     *)
(***************************************************************************)
Resolution == 2          \* time units per simulation step
MaxSteps == 3            \* the wall clock stops after this many steps' worth of time
MaxExternal == 2         \* messages posted through Game.sender (SpecBus only)
MaxInputs == 2           \* keyboard, pointer and other events (SpecInput only)
MaxCalls == 8            \* direct calls of Weapon's methods (SpecWeapon only)

(***************************************************************************)
(* Program constants                                                       *)
(***************************************************************************)
TIMESTEP == Resolution                 \* const TIMESTEP: f32 = 1.0 / 60.0
ReloadInterval == 6 * Resolution       \* shot_timer = 0.1 in Weapon::shoot
MaxClock == MaxSteps * TIMESTEP
RayLength == 1000                      \* look_vector().scale(1000.0), unit look vector
RecoilKickY == 1024                    \* 0.00625, in units of 0.00625 / 1024
RecoilKickZ == 0 - 4096                \* -0.025 in the same units
RecoilEpsSq == 26843                   \* (0.001)^2 in squared units: 163.84^2, floor

PlayerCollider == 0
Colliders == {0, 1, 2}
Distances == {1, 3, 5, RayLength + 1}
Origins == {0, 2}
WeaponHandle == 1                      \* the single weapon spawned in Game::new
PitchLimit == 90                       \* clamp(-90.0, 90.0) in process_input_event
Keys == {"W", "S", "A", "D", "other"}  \* input.virtual_keycode
DeltaX == {0 - 90, 90}                 \* MouseMotion delta.0, degrees
DeltaY == {0 - 100, 100}               \* MouseMotion delta.1, degrees
VerticalVelocities == {0, 0 - 3}       \* body.linvel().y after a physics step
UpdateDts == {0, 1}                    \* dt of a direct Weapon::update call

Min(a, b) == IF a <= b THEN a ELSE b
Abs(a) == IF a >= 0 THEN a ELSE 0 - a

VARIABLES
    clock,                 \* clock.elapsed(), wall clock
    elapsed_time,          \* main: elapsed_time
    dt,                    \* main: the loop's dt
    pc,                    \* position inside the MainEventsCleared handler
    scene,                 \* the colliders of the loaded scene and of the player
    controller,            \* Player.controller (InputController)
    body,                  \* the player's rigid body: linvel <<x, y, z>>, rotation yaw
    graph,                 \* scene graph: pivot and camera rotation, weapon position
    shot_timer,            \* Weapon.shot_timer
    recoil_offset,         \* Weapon.recoil_offset, <<y, z>>
    recoil_target_offset,  \* Weapon.recoil_target_offset, <<y, z>>
    queue,                 \* messages in the mpsc channel
    posted,                \* history: number of messages sent so far
    consumed,              \* history: ids of the messages received, in order
    external,              \* history: messages sent through Game.sender
    trail_nodes,           \* shot trails spawned in the current simulation step
    impact_nodes,          \* bullet impacts spawned in the current simulation step
    forces,                \* apply_force_at_point calls of the current simulation step
    shot,                  \* history: what the shot of the current step did
    dropped,               \* history: messages of the current step that fired nothing
    update_dt,             \* history: dt argument of the running Game::update
    iter,                  \* history: bookkeeping of the current loop iteration
    since_shot,            \* history: sum of update(dt) since the last shoot()
    last_shot_time,        \* history: elapsed_time at the last shoot()
    shot_gap,              \* history: simulated time between the last two shots
    step,                  \* history: parts run and messages posted in the current step
    ops                    \* history: input events and direct Weapon calls so far

vars == <<clock, elapsed_time, dt, pc, scene, controller, shot_timer, recoil_offset,
          recoil_target_offset, queue, posted, consumed, external, trail_nodes,
          impact_nodes, forces, shot, dropped, update_dt, iter, since_shot,
          last_shot_time, shot_gap, body, graph, step, ops>>

NoShot == [fired |-> FALSE, origin |-> 0, intersections |-> <<>>, hit |-> 0,
           force_bodies |-> {}, force_at |-> {}, impact_at |-> {},
           trail_length |-> 0]

NoStep == [phases |-> <<>>, posts |-> 0]

\* the state after Game::new, for a scene with the colliders cs
InitScene(cs) ==
    /\ scene = cs
    /\ clock = 0
    /\ elapsed_time = 0
    /\ dt = 0
    /\ pc = "idle"
    /\ controller = [move_forward |-> FALSE, move_backward |-> FALSE,
                     move_left |-> FALSE, move_right |-> FALSE,
                     pitch |-> 0, yaw |-> 0, shoot |-> FALSE]
    /\ body = [linvel |-> <<0, 0, 0>>, yaw |-> 0]
    /\ graph = [pivot_yaw |-> 0, camera_pitch |-> 0, weapon_position |-> <<0, 0>>]
    /\ step = NoStep
    /\ ops = [inputs |-> 0, event |-> "none", dx_sum |-> 0,
              calls |-> 0, last_call |-> "none"]
    /\ shot_timer = 0
    /\ recoil_offset = <<0, 0>>
    /\ recoil_target_offset = <<0, 0>>
    /\ queue = <<>>
    /\ posted = 0
    /\ consumed = <<>>
    /\ external = 0
    /\ trail_nodes = 0
    /\ impact_nodes = 0
    /\ forces = 0
    /\ shot = NoShot
    /\ dropped = 0
    /\ update_dt = 0
    /\ iter = [dt0 |-> 0, steps |-> 0, elapsed0 |-> 0]
    /\ since_shot = 0 - 1
    /\ last_shot_time = 0 - 1
    /\ shot_gap = 0 - 1

Init == InitScene(Colliders)

\* a scene with a single collider besides the player's capsule
InitBus == InitScene({PlayerCollider, 1})

\* a scene in which the ray can meet the player's capsule only
InitInput == InitScene({PlayerCollider})

(***************************************************************************)
(* Weapon (src/weapon.rs)                                                  *)
(***************************************************************************)
\* update, line 41: self.shot_timer = (self.shot_timer - dt).min(0.0)
TimerAfterUpdate(timer, d) == Min(timer - d, 0)

\* variant of can_shoot: the cooldown gate is missing
AlwaysReady(timer) == TRUE

\* can_shoot, line 56
can_shoot(timer) == timer <= 0

\* variant of follow: the offset moves away from the target
FollowAway(offset, target) ==
    <<offset[1] - (target[1] - offset[1]) \div 2,
      offset[2] - (target[2] - offset[2]) \div 2>>

\* Vector3Ext::follow(&target, 0.5): offset += (target - offset) * 0.5
Follow(offset, target) ==
    <<offset[1] + (target[1] - offset[1]) \div 2,
      offset[2] + (target[2] - offset[2]) \div 2>>

\* squared metric_distance of two offsets
DistSq(a, b) == (a[1] - b[1]) * (a[1] - b[1]) + (a[2] - b[2]) * (a[2] - b[2])

\* update, lines 46-52: the target returns to zero once the offset is near it
TargetAfterUpdate(offset, target) ==
    IF DistSq(offset, target) <= RecoilEpsSq THEN <<0, 0>> ELSE target

\* Weapon::update(dt, graph)
WeaponUpdate(d) ==
    /\ shot_timer' = TimerAfterUpdate(shot_timer, d)
    /\ recoil_offset' = Follow(recoil_offset, recoil_target_offset)
    /\ graph' = [graph EXCEPT
                    !.weapon_position = Follow(recoil_offset, recoil_target_offset)]
    /\ recoil_target_offset' =
           TargetAfterUpdate(Follow(recoil_offset, recoil_target_offset),
                             recoil_target_offset)

\* variant of shoot: the recoil is set, the timer is left as it is
WeaponShootNoTimer ==
    /\ shot_timer' = shot_timer
    /\ recoil_target_offset' = <<RecoilKickY, RecoilKickZ>>

\* Weapon::shoot()
WeaponShoot ==
    /\ shot_timer' = ReloadInterval
    /\ recoil_target_offset' = <<RecoilKickY, RecoilKickZ>>

(***************************************************************************)
(* Message channel (std::sync::mpsc::channel, src/main.rs line 72)         *)
(***************************************************************************)
\* variant of send: the newest message goes to the front
SendLifo(q, m) == <<m>> \o q

\* variant of send: a one-slot channel that discards what does not fit
SendBounded(q, m) == IF Len(q) >= 1 THEN q ELSE Append(q, m)

\* Sender::send on the unbounded channel: the message is appended
Send(q, m) == Append(q, m)

ShootWeaponMsg(n) == [weapon |-> WeaponHandle, id |-> n]

(***************************************************************************)
(* Ray cast and hit selection (Game::shoot_weapon, src/main.rs)            *)
(***************************************************************************)
\* the sets of hits the physics world can report: each collider at most once
HitSets(cs) ==
    UNION { { { [collider |-> c, toi |-> f[c]] : c \in S } : f \in [S -> Distances] }
            : S \in SUBSET cs }

Arrangements(H) ==
    { s \in [1..Cardinality(H) -> H] : \A i, j \in 1..Cardinality(H) : i # j => s[i] # s[j] }

IsSorted(s) == \A i, j \in 1..Len(s) : i < j => s[i].toi <= s[j].toi

\* variant of the sort: sort_results left false, any order of the hits
Unsorted(H) == Arrangements(H)

\* sort_results: true (line 126): any closest-first order of the hits
SortResults(H) == { s \in Arrangements(H) : IsSorted(s) }

\* cast_ray with max_len = ray.dir.norm() (lines 121-129): the hits within
\* the ray's length, each with the point of the ray it lies at
cast_ray(origin, max_len, hits) ==
    { [i \in 1..Len(s) |-> [collider |-> s[i].collider, toi |-> s[i].toi,
                            position |-> origin + s[i].toi]]
      : s \in SortResults({ h \in hits : h.toi <= max_len }) }

\* variant of the filter: the player's own collider is not excluded
QualifiesAll(i, own) == TRUE

\* the filter of line 134
Qualifies(i, own) == i.collider # own

\* intersections.iter().find(..), lines 132-134: index of the first qualifying
\* intersection, 0 when there is none
FindHit(ints, own) ==
    IF \E k \in 1..Len(ints) : Qualifies(ints[k], own)
    THEN CHOOSE k \in 1..Len(ints) :
             /\ Qualifies(ints[k], own)
             /\ \A j \in 1..(k - 1) : ~Qualifies(ints[j], own)
    ELSE 0

\* collider.parent(): the player's capsule belongs to the player's body
\* (player.rs lines 97-106), every scene collider to a body of the scene
ColliderParent(c) ==
    IF c = PlayerCollider THEN <<"player_body", c>> ELSE <<"body", c>>

\* variant of the trail length: measured to the first intersection of the
\* list, whether it qualifies or not
TrailLengthFirst(ints, k, origin, raylen) ==
    IF Len(ints) > 0 THEN Abs(ints[1].position - origin) ELSE raylen

\* line 170 and line 173
TrailLength(ints, k, origin, raylen) ==
    IF k # 0 THEN Abs(ints[k].position - origin) ELSE raylen

\* Game::shoot_weapon, lines 102-178
shoot_weapon ==
    IF can_shoot(shot_timer)
    THEN /\ WeaponShoot
         /\ \E origin \in Origins, hits \in HitSets(scene) :
              \E ints \in cast_ray(origin, RayLength, hits) :
                LET k == FindHit(ints, PlayerCollider) IN
                /\ forces' = IF k # 0 THEN forces + 1 ELSE forces
                /\ impact_nodes' = IF k # 0 THEN impact_nodes + 1 ELSE impact_nodes
                /\ trail_nodes' = trail_nodes + 1
                /\ shot' = [fired |-> TRUE,
                            origin |-> origin,
                            intersections |-> ints,
                            hit |-> k,
                            force_bodies |-> IF k # 0
                                             THEN {ColliderParent(ints[k].collider)}
                                             ELSE {},
                            force_at |-> IF k # 0 THEN {ints[k].position} ELSE {},
                            impact_at |-> IF k # 0 THEN {ints[k].position} ELSE {},
                            trail_length |-> TrailLength(ints, k, origin, RayLength)]
         /\ since_shot' = 0
         /\ shot_gap' = IF last_shot_time < 0 THEN 0 - 1
                        ELSE elapsed_time - last_shot_time
         /\ last_shot_time' = elapsed_time
         /\ UNCHANGED dropped
    ELSE /\ dropped' = dropped + 1
         /\ UNCHANGED <<shot_timer, recoil_target_offset, forces, impact_nodes,
                        trail_nodes, shot, since_shot, shot_gap, last_shot_time>>

(***************************************************************************)
(* Order of the parts of Game::update (src/main.rs lines 88-100)           *)
(***************************************************************************)
\* variant of the order: the messages are drained before the weapons update
NextPhaseDrainFirst(p) ==
    IF p = "player" THEN "drain" ELSE IF p = "drain" THEN "weapons" ELSE "loop"

\* variant of the order: the step ends without draining the messages
NextPhaseNoDrain(p) == IF p = "player" THEN "weapons" ELSE "loop"

\* line 89, then lines 90-92, then lines 93-99, then back to the loop of main
NextPhase(p) ==
    IF p = "player" THEN "weapons" ELSE IF p = "weapons" THEN "drain" ELSE "loop"

(***************************************************************************)
(* Player (src/player.rs)                                                  *)
(***************************************************************************)
\* variant of process_input_event: pressing the button posts the message at once
process_input_event_posts(c) ==
    /\ controller' = c
    /\ IF c.shoot
       THEN /\ queue' = Send(queue, ShootWeaponMsg(posted + 1))
            /\ posted' = posted + 1
       ELSE UNCHANGED <<queue, posted>>
    /\ UNCHANGED <<body, graph, step, scene, dropped, clock, elapsed_time, dt, pc,
                   shot_timer, recoil_offset, recoil_target_offset, consumed,
                   external, trail_nodes, impact_nodes, forces, shot, update_dt,
                   iter, since_shot, last_shot_time, shot_gap>>

\* process_input_event, lines 155-197: the controller becomes c, and nothing
\* else of the game is touched
process_input_event(c) ==
    /\ controller' = c
    /\ UNCHANGED <<body, graph, step, scene, dropped, clock, elapsed_time, dt, pc,
                   shot_timer, recoil_offset, recoil_target_offset, queue, posted,
                   consumed, external, trail_nodes, impact_nodes, forces, shot,
                   update_dt, iter, since_shot, last_shot_time, shot_gap>>

\* lines 179-187: left mouse button pressed / released
MouseInput ==
    /\ pc = "idle"
    /\ \E pressed \in BOOLEAN :
         process_input_event([controller EXCEPT !.shoot = pressed])
    /\ UNCHANGED ops

\* lines 161-177: the controller after a key event
KeyEvent(c, key, pressed) ==
    CASE key = "W" -> [c EXCEPT !.move_forward = pressed]
      [] key = "S" -> [c EXCEPT !.move_backward = pressed]
      [] key = "A" -> [c EXCEPT !.move_left = pressed]
      [] key = "D" -> [c EXCEPT !.move_right = pressed]
      [] OTHER -> c

\* lines 157-178: a key pressed / released
KeyboardInput ==
    /\ pc = "idle"
    /\ ops.inputs < MaxInputs
    /\ \E key \in Keys, pressed \in BOOLEAN :
         /\ process_input_event(KeyEvent(controller, key, pressed))
         /\ ops' = [ops EXCEPT !.inputs = @ + 1,
                               !.event = IF key = "other" THEN "other" ELSE "handled"]

Clamp(x, lo, hi) == IF x < lo THEN lo ELSE IF x > hi THEN hi ELSE x

\* variant of line 192: the yaw is kept within one turn
MotionYawWrapped(yaw, dx) == (yaw - dx) % 360

\* line 192: self.controller.yaw -= delta.0
MotionYaw(yaw, dx) == yaw - dx

\* line 193
MotionPitch(pitch, dy) == Clamp(pitch + dy, 0 - PitchLimit, PitchLimit)

\* lines 188-194: the pointer moved by <<dx, dy>>
MouseMotion ==
    /\ pc = "idle"
    /\ ops.inputs < MaxInputs
    /\ \E dx \in DeltaX, dy \in DeltaY :
         /\ process_input_event([controller EXCEPT
                                    !.yaw = MotionYaw(@, dx),
                                    !.pitch = MotionPitch(@, dy)])
         /\ ops' = [ops EXCEPT !.inputs = @ + 1, !.event = "handled",
                               !.dx_sum = @ + dx]

\* line 195: any other event (another mouse button, a redraw, a resize)
OtherEvent ==
    /\ pc = "idle"
    /\ ops.inputs < MaxInputs
    /\ process_input_event(controller)
    /\ ops' = [ops EXCEPT !.inputs = @ + 1, !.event = "other"]

\* sine and cosine of an angle that is a multiple of 90 degrees
Sin90(a) == CASE a % 360 = 90 -> 1 [] a % 360 = 270 -> 0 - 1 [] OTHER -> 0
Cos90(a) == CASE a % 360 = 0 -> 1 [] a % 360 = 180 -> 0 - 1 [] OTHER -> 0

\* look_vector() and side_vector() of a node turned by yaw about the y axis
LookVector(yaw) == <<Sin90(yaw), 0, Cos90(yaw)>>
SideVector(yaw) == <<Cos90(yaw), 0, 0 - Sin90(yaw)>>

VAdd(u, v) == <<u[1] + v[1], u[2] + v[2], u[3] + v[3]>>
VSub(u, v) == <<u[1] - v[1], u[2] - v[2], u[3] - v[3]>>

\* variant of the velocity: moving backward adds the look vector
VelocityBackAdds(c, vy, look, side) ==
    LET v0 == <<0, vy, 0>>
        v1 == IF c.move_forward THEN VAdd(v0, look) ELSE v0
        v2 == IF c.move_backward THEN VAdd(v1, look) ELSE v1
        v3 == IF c.move_left THEN VAdd(v2, side) ELSE v2
    IN  IF c.move_right THEN VSub(v3, side) ELSE v3

\* Player::update, lines 129-141
Velocity(c, vy, look, side) ==
    LET v0 == <<0, vy, 0>>
        v1 == IF c.move_forward THEN VAdd(v0, look) ELSE v0
        v2 == IF c.move_backward THEN VSub(v1, look) ELSE v1
        v3 == IF c.move_left THEN VAdd(v2, side) ELSE v2
    IN  IF c.move_right THEN VSub(v3, side) ELSE v3

\* variant of the test of line 147: a message is posted in every step
ShootRequestedAlways(c) == TRUE

\* the test of line 147
ShootRequested(c) == c.shoot

\* Player::update, lines 119-154, called at line 89 of main.rs
PlayerUpdate ==
    /\ pc = "player"
    /\ graph' = [graph EXCEPT !.camera_pitch = controller.pitch]
    /\ body' = [linvel |-> Velocity(controller, body.linvel[2],
                                    LookVector(graph.pivot_yaw),
                                    SideVector(graph.pivot_yaw)),
                yaw |-> controller.yaw]
    /\ IF ShootRequested(controller)
       THEN /\ queue' = Send(queue, ShootWeaponMsg(posted + 1))
            /\ posted' = posted + 1
            /\ step' = [phases |-> Append(step.phases, "player"),
                        posts |-> step.posts + 1]
       ELSE /\ step' = [step EXCEPT !.phases = Append(@, "player")]
            /\ UNCHANGED <<queue, posted>>
    /\ pc' = NextPhase("player")
    /\ UNCHANGED <<ops, scene, dropped, clock, elapsed_time, dt, controller, shot_timer, recoil_offset,
                   recoil_target_offset, consumed, external, trail_nodes,
                   impact_nodes, forces, shot, update_dt, iter, since_shot,
                   last_shot_time, shot_gap>>

(***************************************************************************)
(* Game::update (src/main.rs lines 88-100)                                 *)
(***************************************************************************)
\* lines 90-92: every weapon of the pool is updated with the dt passed in
WeaponsUpdate ==
    /\ pc = "weapons"
    /\ WeaponUpdate(update_dt)
    /\ step' = [step EXCEPT !.phases = Append(@, "weapons")]
    /\ since_shot' = IF since_shot < 0 THEN since_shot ELSE since_shot + update_dt
    /\ pc' = NextPhase("weapons")
    /\ UNCHANGED <<body, ops, scene, dropped, clock, elapsed_time, dt, controller, queue, posted, consumed,
                   external, trail_nodes, impact_nodes, forces, shot, update_dt,
                   iter, last_shot_time, shot_gap>>

\* lines 93-99, one turn of the loop: try_recv returns a message
DrainOne ==
    /\ pc = "drain"
    /\ queue # <<>>
    /\ queue' = Tail(queue)
    /\ consumed' = Append(consumed, Head(queue).id)
    /\ shoot_weapon
    /\ UNCHANGED <<body, graph, step, ops, scene, clock, elapsed_time, dt, pc, controller, recoil_offset, posted,
                   external, update_dt, iter>>

\* engine.update(TIMESTEP), line 310: the physics step leaves the body with
\* some vertical velocity, and the pivot node takes the body's rotation
EngineUpdate ==
    /\ \E vy \in VerticalVelocities :
         body' = [body EXCEPT !.linvel = <<body.linvel[1], vy, body.linvel[3]>>]
    /\ graph' = [graph EXCEPT !.pivot_yaw = body.yaw]

\* lines 93 and 310: try_recv reports the queue empty, the step ends (and
\* with it the per-step history of effects)
DrainEnd ==
    /\ pc = "drain"
    /\ queue = <<>>
    /\ pc' = NextPhase("drain")
    /\ trail_nodes' = 0
    /\ impact_nodes' = 0
    /\ forces' = 0
    /\ shot' = NoShot
    /\ dropped' = 0
    /\ step' = NoStep
    /\ EngineUpdate
    /\ UNCHANGED <<ops, scene, clock, elapsed_time, dt, controller, shot_timer, recoil_offset,
                   recoil_target_offset, queue, posted, consumed, external,
                   update_dt, iter, since_shot, last_shot_time, shot_gap>>

(***************************************************************************)
(* main: the MainEventsCleared handler (src/main.rs lines 297-315)         *)
(***************************************************************************)
\* line 301: the clock is read, the loop variable dt is set
MainEventsCleared ==
    /\ pc = "idle"
    /\ \E adv \in 0..(MaxClock - clock) :
         /\ clock' = clock + adv
         /\ dt' = clock + adv - elapsed_time
         /\ iter' = [dt0 |-> clock + adv - elapsed_time, steps |-> 0,
                     elapsed0 |-> elapsed_time]
    /\ pc' = "loop"
    /\ UNCHANGED <<body, graph, step, ops, scene, dropped, elapsed_time, controller, shot_timer, recoil_offset,
                   recoil_target_offset, queue, posted, consumed, external,
                   trail_nodes, impact_nodes, forces, shot, update_dt,
                   since_shot, last_shot_time, shot_gap>>

\* the argument of game.update at line 307
StepDt(d) == d

\* variant of the loop test: a strict comparison
LoopTestStrict(d) == d > TIMESTEP

\* the loop test of line 302
LoopTest(d) == d >= TIMESTEP

\* lines 302-307: the loop test; a step starts, or the handler returns
LoopCheck ==
    /\ pc = "loop"
    /\ IF LoopTest(dt)
       THEN /\ dt' = dt - TIMESTEP
            /\ elapsed_time' = elapsed_time + TIMESTEP
            /\ update_dt' = StepDt(dt - TIMESTEP)
            /\ iter' = [iter EXCEPT !.steps = @ + 1]
            /\ pc' = "player"
       ELSE /\ pc' = "idle"
            /\ UNCHANGED <<dt, elapsed_time, update_dt, iter>>
    /\ UNCHANGED <<body, graph, step, ops, scene, dropped, clock, controller, shot_timer, recoil_offset,
                   recoil_target_offset, queue, posted, consumed, external,
                   trail_nodes, impact_nodes, forces, shot, since_shot,
                   last_shot_time, shot_gap>>

\* a message sent through the Sender that Game keeps (lines 56 and 84)
ExternalSend ==
    /\ external < MaxExternal
    /\ external' = external + 1
    /\ queue' = Send(queue, ShootWeaponMsg(posted + 1))
    /\ posted' = posted + 1
    /\ UNCHANGED <<body, graph, step, ops, scene, dropped, clock, elapsed_time, dt, pc, controller, shot_timer,
                   recoil_offset, recoil_target_offset, consumed, trail_nodes,
                   impact_nodes, forces, shot, update_dt, iter, since_shot,
                   last_shot_time, shot_gap>>

Next ==
    \/ MouseInput
    \/ MainEventsCleared
    \/ LoopCheck
    \/ PlayerUpdate
    \/ WeaponsUpdate
    \/ DrainOne
    \/ DrainEnd

Spec == Init /\ [][Next]_vars

NextBus == Next \/ ExternalSend

SpecBus == InitBus /\ [][NextBus]_vars

NextInput == Next \/ KeyboardInput \/ MouseMotion \/ OtherEvent

SpecInput == InitInput /\ [][NextInput]_vars

\* a Weapon driven through its methods alone: update(dt, graph)
ApiUpdate ==
    /\ ops.calls < MaxCalls
    /\ \E d \in UpdateDts :
         /\ WeaponUpdate(d)
         /\ since_shot' = IF since_shot < 0 THEN since_shot ELSE since_shot + d
    /\ ops' = [ops EXCEPT !.calls = @ + 1, !.last_call = "update"]
    /\ UNCHANGED <<body, step, scene, dropped, clock, elapsed_time, dt, pc, controller,
                   queue, posted, consumed, external, trail_nodes, impact_nodes,
                   forces, shot, update_dt, iter, last_shot_time, shot_gap>>

\* a Weapon driven through its methods alone: shoot()
ApiShoot ==
    /\ ops.calls < MaxCalls
    /\ WeaponShoot
    /\ since_shot' = 0
    /\ ops' = [ops EXCEPT !.calls = @ + 1, !.last_call = "shoot"]
    /\ UNCHANGED <<body, graph, step, scene, dropped, clock, elapsed_time, dt, pc,
                   controller, recoil_offset, queue, posted, consumed, external,
                   trail_nodes, impact_nodes, forces, shot, update_dt, iter,
                   last_shot_time, shot_gap>>

NextWeapon == ApiUpdate \/ ApiShoot

SpecWeapon == Init /\ [][NextWeapon]_vars

\* the handler is sequential code: once entered it runs to its end
HandlerStep == LoopCheck \/ PlayerUpdate \/ WeaponsUpdate \/ DrainOne \/ DrainEnd

LiveBus == SpecBus /\ WF_vars(HandlerStep)

InStep == pc \in {"player", "weapons", "drain"}

(***************************************************************************)
(* Claims                                                                  *)
(***************************************************************************)

\* C1: in every reachable state of a weapon, shot_timer >= 0 (the timer is
\* clamped at 0 and never goes negative).
C1_TimerNeverNegative == shot_timer >= 0

\* C2: after shoot(), can_shoot() is true only once the update(dt) calls
\* made since that shoot() sum to at least the reload interval.
C2_ReadyOnlyAfterReload ==
    (since_shot >= 0 /\ can_shoot(shot_timer)) => since_shot >= ReloadInterval

\* C3: two consecutive executed shots of the weapon are separated by at
\* least the reload interval of simulated time.
C3_ShotsSeparatedByReload == shot_gap >= 0 => shot_gap >= ReloadInterval

\* C4: every simulation step invokes Game::update (and Weapon::update) with
\* dt equal to the fixed timestep.
C4_StepDtIsTimestep == InStep => update_dt = TIMESTEP

\* C5: one loop iteration that starts with the wall clock dt0 ahead of
\* elapsed_time runs dt0 div T steps (k steps when dt0 = k * T, all in this
\* iteration), advances elapsed_time by T per step, and leaves a residual
\* below T that stays in the difference of clock and elapsed_time.
C5_CatchUpSteps ==
    /\ dt + iter.steps * TIMESTEP = iter.dt0
    /\ elapsed_time = iter.elapsed0 + iter.steps * TIMESTEP
    /\ pc = "idle" =>
         /\ iter.steps = iter.dt0 \div TIMESTEP
         /\ \A k \in 0..MaxSteps : iter.dt0 = k * TIMESTEP => iter.steps = k
         /\ 0 <= dt /\ dt < TIMESTEP
         /\ clock - elapsed_time = dt

\* C5 witness: an iteration that ran several catch-up steps for dt0 = k * T
C5_Witness ==
    pc = "idle" /\ iter.steps >= 2 /\ iter.dt0 = iter.steps * TIMESTEP
\* the intersections of the current shot that are not with the player's collider
QualifyingHits ==
    { i \in 1..Len(shot.intersections) :
          shot.intersections[i].collider # PlayerCollider }

\* C6: ShootWeapon messages are consumed in the order they were posted, each
\* exactly once: the messages consumed so far, followed by those still
\* queued, are the messages posted so far, in posting order.
C6_FifoExactlyOnce ==
    consumed \o [i \in 1..Len(queue) |-> queue[i].id] = [i \in 1..posted |-> i]

\* C6 witness: three messages consumed, two of them in the same step
C6_Witness == Len(consumed) >= 3 /\ dropped >= 1

\* C7: a message pending while a simulation step runs is eventually
\* consumed; no message is lost (every posted message is consumed or still
\* queued); and a consumed message that fires nothing met the cooldown gate.
C7_EventuallyConsumed ==
    /\ (InStep /\ posted > Len(consumed)) ~> (posted = Len(consumed))
    /\ [](posted = Len(consumed) + Len(queue))
    /\ [][(consumed' # consumed /\ trail_nodes' = trail_nodes)
            => shot_timer > 0]_vars

\* C7 witness: a step that consumed everything posted, one message of which
\* was dropped by the cooldown gate
C7_Witness ==
    pc = "drain" /\ posted = Len(consumed) /\ posted >= 2 /\ dropped = 1
        /\ trail_nodes = 1

\* C8: when a shot fires and some intersection is not with the player's own
\* collider, the hit is such an intersection of smallest distance, the trail
\* is as long as that distance, and the one impulse and the one impact
\* effect are applied at that hit's position to the body owning its collider.
C8_ClosestQualifyingHit ==
    (shot.fired /\ QualifyingHits # {}) =>
        /\ shot.hit \in QualifyingHits
        /\ \A j \in QualifyingHits :
               shot.intersections[shot.hit].toi <= shot.intersections[j].toi
        /\ shot.trail_length = shot.intersections[shot.hit].toi
        /\ shot.force_at = {shot.origin + shot.intersections[shot.hit].toi}
        /\ shot.impact_at = shot.force_at
        /\ shot.force_bodies = {<<"body", shot.intersections[shot.hit].collider>>}
        /\ forces = 1 /\ impact_nodes = 1

\* C8 witness: hits at distances 5, 1 and 3, the one at 1 being the player's
\* own collider; the hit taken is the one at distance 3
C8_Witness ==
    /\ shot.fired
    /\ { <<i.collider, i.toi>> : i \in { shot.intersections[n] :
                                          n \in 1..Len(shot.intersections) } }
           = { <<1, 5>>, <<PlayerCollider, 1>>, <<2, 3>> }
    /\ shot.trail_length = 3

\* C9: when a shot fires and no intersection qualifies (none at all, or only
\* the player's own collider), the trail has the ray's length 1000, no
\* impulse is applied, no impact effect is spawned, one trail is spawned.
C9_MissTrail ==
    (shot.fired /\ QualifyingHits = {}) =>
        /\ shot.trail_length = 1000
        /\ shot.force_bodies = {} /\ forces = 0
        /\ shot.impact_at = {} /\ impact_nodes = 0
        /\ trail_nodes = 1

\* C9 witness: a shot whose only intersection is the player's own collider
C9_Witness ==
    shot.fired /\ Len(shot.intersections) = 1 /\ QualifyingHits = {}
        /\ trail_nodes = 1

\* C10: effects come only from consuming a message while the weapon is ready;
\* a message consumed while shot_timer > 0 is dropped: the weapon, the
\* effects and the ray-cast record stay as they are, the handler goes on and
\* the message is neither kept nor queued again.
C10_GatedDrop ==
    /\ [][(trail_nodes' # trail_nodes \/ forces' # forces
             \/ impact_nodes' # impact_nodes)
            => (pc = "drain" /\ pc' = "loop")
               \/ (consumed' # consumed /\ shot_timer <= 0)]_vars
    /\ [][(consumed' # consumed /\ shot_timer > 0) =>
            /\ shot_timer' = shot_timer
            /\ recoil_target_offset' = recoil_target_offset
            /\ recoil_offset' = recoil_offset
            /\ forces' = forces
            /\ impact_nodes' = impact_nodes
            /\ trail_nodes' = trail_nodes
            /\ shot' = shot
            /\ pc' = pc
            /\ queue' = Tail(queue)
            /\ posted' = posted]_vars

\* C10 witness: a message was consumed while the weapon was cooling
C10_Witness == dropped >= 1 /\ shot_timer > 0

\* C11: can_shoot() is true exactly when shot_timer = 0 and false exactly
\* when shot_timer > 0, and the weapon is always in one of these two states.
C11_ReadyIffTimerZero ==
    /\ can_shoot(shot_timer) <=> shot_timer = 0
    /\ ~can_shoot(shot_timer) <=> shot_timer > 0
    /\ shot_timer = 0 \/ shot_timer > 0

\* C12: right after shoot(), with no update in between, can_shoot() is
\* false: while the step in which a shot was fired is still draining, the
\* weapon is not ready.
C12_NotReadyAfterShoot == (pc = "drain" /\ shot.fired) => ~can_shoot(shot_timer)

\* C12 witness: a shot has just been fired
C12_Witness == pc = "drain" /\ shot.fired /\ shot_timer = ReloadInterval

\* C13: after any sequence of input events the pitch lies within [-90, 90],
\* and the yaw is minus the sum of all horizontal pointer deltas: nothing
\* clamps or wraps it.
C13_PitchClampedYawFree ==
    /\ controller.pitch >= 0 - PitchLimit
    /\ controller.pitch <= PitchLimit
    /\ controller.yaw = 0 - ops.dx_sum

\* two pointer motions to the same side: the pitch is held at the limit, the
\* yaw has taken both deltas
C13_Witness ==
    /\ controller.pitch = PitchLimit
    /\ controller.yaw = 180
    /\ ops.inputs = 2

\* what a pair of opposite movement flags adds to the velocity
PairContribution(plus, minus, vec) ==
    IF plus = minus THEN <<0, 0, 0>>
    ELSE IF plus THEN vec ELSE VSub(<<0, 0, 0>>, vec)

\* C14: Player::update leaves the body's vertical velocity as it found it,
\* and sets the horizontal velocity to the sum of what the forward/backward
\* pair and the left/right pair contribute, a pair with both flags set
\* contributing nothing.
C14_MovementCancels ==
    [][pc = "player" =>
         /\ body'.linvel[2] = body.linvel[2]
         /\ body'.linvel =
              VAdd(<<0, body.linvel[2], 0>>,
                   VAdd(PairContribution(controller.move_forward,
                                         controller.move_backward,
                                         LookVector(graph.pivot_yaw)),
                        PairContribution(controller.move_left,
                                         controller.move_right,
                                         SideVector(graph.pivot_yaw))))]_vars

\* forward and backward are held while the body falls: the horizontal
\* velocity is zero, the vertical velocity is kept
C14_Witness ==
    /\ pc = "weapons"
    /\ controller.move_forward /\ controller.move_backward
    /\ ~controller.move_left /\ ~controller.move_right
    /\ body.linvel = <<0, 0 - 3, 0>>

\* C15 as stated: every Weapon::update leaves the offset no farther from
\* the target it ends with than it was from the target it started with.
C15_DistanceToTargetNeverGrows ==
    [][(ops'.calls # ops.calls /\ ops'.last_call = "update") =>
         DistSq(recoil_offset', recoil_target_offset')
             <= DistSq(recoil_offset, recoil_target_offset)]_vars

\* C15, amended: every Weapon::update leaves the offset no farther from
\* the target the update started with; the target becomes zero in the update
\* that brings the offset within 0.001 of it and is otherwise kept; and with
\* the target at zero the offset comes no farther from zero.
C15_RecoilConverges ==
    [][(ops'.calls # ops.calls /\ ops'.last_call = "update") =>
         /\ DistSq(recoil_offset', recoil_target_offset)
                <= DistSq(recoil_offset, recoil_target_offset)
         /\ recoil_target_offset' =
                IF DistSq(recoil_offset', recoil_target_offset) <= RecoilEpsSq
                THEN <<0, 0>> ELSE recoil_target_offset
         /\ recoil_target_offset = <<0, 0>> =>
                /\ recoil_target_offset' = <<0, 0>>
                /\ DistSq(recoil_offset', <<0, 0>>) <= DistSq(recoil_offset, <<0, 0>>)]_vars

\* the update that brought the offset within 0.001 of the kick has run: the
\* target is zero again while the offset still is near the kick
C15_Witness ==
    /\ ops.last_call = "update"
    /\ recoil_target_offset = <<0, 0>>
    /\ recoil_offset # <<0, 0>>
    /\ DistSq(recoil_offset, <<RecoilKickY, RecoilKickZ>>) <= RecoilEpsSq

\* C16: a simulation step runs Player::update, then the weapons' update, then
\* the drain; a message is consumed only after both have run, and the message
\* Player::update posted is consumed before the step ends.
C16_StepOrder ==
    /\ pc = "player" => step.phases = <<>>
    /\ pc = "weapons" => step.phases = <<"player">>
    /\ pc = "drain" => step.phases = <<"player", "weapons">>
    /\ pc \notin {"player", "weapons", "drain"} => step = NoStep
    /\ (trail_nodes + dropped > 0) => step.phases = <<"player", "weapons">>
    /\ (pc = "drain" /\ step.posts = 1 /\ queue = <<>>) =>
           (consumed # <<>> /\ consumed[Len(consumed)] = posted)

\* the message of this step has been consumed, after both updates
C16_Witness ==
    /\ pc = "drain"
    /\ step.posts = 1
    /\ queue = <<>>
    /\ shot.fired
    /\ consumed[Len(consumed)] = posted
    /\ step.phases = <<"player", "weapons">>

\* C17: once Player::update has run in a step it has posted one ShootWeapon
\* message naming the player's weapon if the shoot flag is set, and none if
\* it is not.
C17_OneMessageIffShoot ==
    /\ pc \in {"weapons", "drain"} =>
           step.posts = (IF controller.shoot THEN 1 ELSE 0)
    /\ (pc = "weapons" /\ controller.shoot) =>
           (queue # <<>> /\ queue[Len(queue)] = [weapon |-> WeaponHandle, id |-> posted])
    /\ (pc = "weapons" /\ ~controller.shoot) => queue = <<>>
    /\ pc \notin {"weapons", "drain"} => step.posts = 0

\* the button is held over two steps: the second message has just been posted
C17_Witness ==
    /\ pc = "weapons"
    /\ step.posts = 1
    /\ posted = 2
    /\ queue = <<[weapon |-> WeaponHandle, id |-> 2]>>

\* C18: an input event changes nothing but the controller: no message is
\* posted, the queue, the weapon, the body and the scene graph stay as they
\* are; an event that is no W/S/A/D key, left button or pointer motion
\* leaves the controller unchanged too.
C18_InputTouchesControllerOnly ==
    [][(pc = "idle" /\ pc' = "idle") =>
         /\ UNCHANGED <<queue, posted, consumed, shot_timer, recoil_offset,
                        recoil_target_offset, body, graph>>
         /\ (ops'.inputs # ops.inputs /\ ops'.event = "other") =>
                controller' = controller]_vars

\* a key, the button and another event have come in after a shot: the weapon
\* still carries the timer and recoil of that shot
C18_Witness ==
    /\ pc = "idle"
    /\ ops.inputs >= 2
    /\ ops.event = "other"
    /\ controller.shoot /\ controller.move_forward
    /\ shot_timer = ReloadInterval
    /\ queue = <<>>

\* C19: the queue is empty whenever no step is between its player update
\* and the end of its drain, and it never holds more than one message.
C19_QueueEmptyAfterStep ==
    /\ Len(queue) <= 1
    /\ pc \in {"loop", "idle", "player"} => (queue = <<>> /\ posted = Len(consumed))

\* C19 witness: a step has ended after consuming the message posted in it
C19_Witness == pc = "loop" /\ Len(consumed) >= 1 /\ queue = <<>>

\* C20: within one simulation step the weapon fires at most once; after its
\* shot the timer holds the reload interval until the step ends, and every
\* further message of the step is dropped.
C20_OneShotPerStep ==
    /\ trail_nodes <= 1
    /\ (pc = "drain" /\ trail_nodes = 1) => shot_timer = ReloadInterval
    /\ dropped > 0 => trail_nodes = 1

\* C20 witness: three messages drained in one step, one shot, two dropped
C20_Witness == pc = "drain" /\ trail_nodes = 1 /\ dropped = 2 /\ queue = <<>>

\* C21: no shot applies the impulse to the body that owns the player's own
\* collider, wherever that collider stands in the sorted list of
\* intersections, and a shot applies the impulse to at most one body, once.
C21_NeverOwnBody ==
    /\ ColliderParent(PlayerCollider) \notin shot.force_bodies
    /\ Cardinality(shot.force_bodies) <= 1
    /\ forces = Cardinality(shot.force_bodies)
    /\ forces <= trail_nodes
    /\ \A n \in 1..Len(shot.intersections) :
           (shot.intersections[n].collider = PlayerCollider /\ forces = 1) =>
               shot.hit # n

\* C21 witness: the player's own collider is the closest of two
\* intersections, and the impulse went to the body of the other one
C21_Witness ==
    /\ shot.fired
    /\ Len(shot.intersections) = 2
    /\ shot.intersections[1].collider = PlayerCollider
    /\ shot.intersections[1].toi < shot.intersections[2].toi
    /\ forces = 1
    /\ shot.force_bodies = {ColliderParent(shot.intersections[2].collider)}

=============================================================================
